---------------------------- MODULE Spec2Model ----------------------------
(***************************************************************************)
(* A model of src/app.py, the Cosmic Radiation Research Dashboard.         *)
(*                                                                         *)
(* The program is a Streamlit script: one run executes the file from top   *)
(* to bottom, tab after tab.  pc is the position of the run in the file,   *)
(* exc the exception that ended it ("none" while it runs).  Each tab reads *)
(* its widgets, calls its feeds and computes its numbers.  The names a tab *)
(* binds are kept while the tab runs and blanked when the next tab begins: *)
(* no later statement of the file reads them before binding them again     *)
(* (days, total_dose, duration, df, fig are all rebound).                  *)
(*                                                                         *)
(* A request the server never answers keeps the run inside the call: pc is *)
(* then "blocked" and no step follows.                                     *)
(*                                                                         *)
(* fetch_json is memoised by st.cache_data (ttl=300).  Within one run it   *)
(* is called once, and upstream is the outcome of the request behind what  *)
(* it returns; the memo itself is followed over the reruns of the script   *)
(* in SpecMemo.  SpecClassify applies the two classification chains, and   *)
(* SpecLookup the table subscripts, to arguments of their whole domain.    *)
(*                                                                         *)
(* Numbers.  The script computes in IEEE doubles.  The model computes the  *)
(* same products exactly, in fixed point: a float is a record              *)
(* [nan, v] with v an integer count of the unit written beside each        *)
(* quantity (total_dose: 1e-7 mSv, total_seus: 1e-6 upsets, ...).  NaN is  *)
(* kept as a value of its own: it is what pandas delivers for a reading it *)
(* cannot convert, it propagates through every product and every           *)
(* comparison with it is false.                                            *)
(***************************************************************************)
EXTENDS Integers, Sequences, FiniteSets, TLC

VARIABLES
    pc,                 \* position of the script run
    exc,                \* exception that ended the run, "none" otherwise
    upstream,           \* what the NOAA proton feed did to this run's request
    \* --- tab 0, Radiation Risk Calculator (lines 54-116)
    mission_days, shielding_material, data, flux, notice,
    base_dose_per_day, daily_dose, total_dose, risk_percent, dose_over_time,
    \* --- tab 2, Biological Effects Visualizer (lines 268-411)
    age, gender, days, raw_dose, adjusted_dose, effect, chart_labels,
    \* --- tab 3, Effects on Electronics (lines 415-508)
    mission_profile, duration, shielding, sensitivity, total_seus, risk,
    \* --- tab 5, Mission Dose Comparator (lines 561-723)
    radiation_data, material, thickness, shielding_factor, solar_phase, mission,
    cmp_duration, cmp_total_dose,
    \* --- the Monte Carlo draws of tab 0 (line 107) and tab 3 (lines 477-478)
    simulated_doses, simulated_failures,
    \* --- tab 1, Live Cosmic Ray Shower Map (lines 120-265)
    iss, csv, station_counts, intensity_options, markers,
    \* --- tab 6, Real-Time Solar System Monitor (lines 729-822)
    proton_latest, proton_notice, xray_notice, kp_notice,
    \* --- the memo st.cache_data keeps for fetch_json (line 23)
    memo, served,
    \* --- the classifiers applied to a value of their whole domain
    probe, probe_effect, probe_risk,
    \* --- the table lookups applied to a key
    table, key, looked_up

risk_vars == <<mission_days, shielding_material, data, flux, notice,
               base_dose_per_day, daily_dose, total_dose, risk_percent,
               dose_over_time>>
bio_vars == <<age, gender, days, raw_dose, adjusted_dose, effect, chart_labels>>
seu_vars == <<mission_profile, duration, shielding, sensitivity, total_seus, risk>>
cmp_vars == <<radiation_data, material, thickness, shielding_factor, solar_phase,
              mission, cmp_duration, cmp_total_dose>>
mc_vars == <<simulated_doses, simulated_failures>>
map_vars == <<iss, csv, station_counts, intensity_options, markers>>
weather_vars == <<proton_latest, proton_notice, xray_notice, kp_notice>>
memo_vars == <<memo, served>>
probe_vars == <<probe, probe_effect, probe_risk>>
key_vars == <<table, key, looked_up>>
\* what no step of a script run touches
aside_vars == <<memo_vars, key_vars>>
vars == <<pc, exc, upstream, risk_vars, bio_vars, seu_vars, cmp_vars, mc_vars,
          map_vars, weather_vars, memo_vars, probe_vars, key_vars>>

---------------------------------------------------------------------------
(* Floats *)

Num(n) == [nan |-> FALSE, v |-> n]
NaN == [nan |-> TRUE, v |-> 0]

\* x * k for a float x and an exact factor k (a constant or an integer input)
FMul(x, k) == IF x.nan THEN NaN ELSE Num(x.v * k)

\* Comparisons: false as soon as one side is NaN
FLt(x, n) == ~x.nan /\ x.v < n
FGe(x, n) == ~x.nan /\ x.v >= n
FEq(x, y) == ~x.nan /\ ~y.nan /\ x.v = y.v
FLe(x, y) == ~x.nan /\ ~y.nan /\ x.v <= y.v

---------------------------------------------------------------------------
(* Bounds of the model *)

\* the sliders are explored on 1..MaxDays and on the landmark values below
MaxDays == 3
\* the proton feed delivers lists of at most MaxRecords records
MaxRecords == 2
\* the classifiers are probed on 0, 0.5, 1, ... MaxProbe/2 and around each bound
MaxProbe == 120

---------------------------------------------------------------------------
(* JSON values of the proton feed *)

None == [kind |-> "None", items |-> <<>>, keys |-> {}, truthy |-> FALSE]
JList(s) == [kind |-> "list", items |-> s, keys |-> {}, truthy |-> Len(s) > 0]
JObject(k) == [kind |-> "object", items |-> <<>>, keys |-> k, truthy |-> k # {}]
JScalar(t) == [kind |-> "scalar", items |-> <<>>, keys |-> {}, truthy |-> t]

\* energy channels the feed interleaves
Channels == {">=10 MeV", ">=100 MeV"}
\* flux readings of well-formed records, particles/cm2/s/sr
FluxValues == {-1, 0, 3}

\* One record of the feed.  has_time / has_flux: whether the key is there;
\* numeric: whether the flux is a JSON number (else a string such as "n/a").
Rec(t, e, hf, n, v) ==
    [has_time |-> t, energy |-> e, has_flux |-> hf, numeric |-> n, v |-> v]
FluxRecords ==
    {Rec(TRUE, e, TRUE, TRUE, v) : e \in Channels, v \in FluxValues}
    \cup {Rec(TRUE, ">=10 MeV", TRUE, FALSE, 0),     \* "flux": "n/a"
          Rec(TRUE, ">=10 MeV", FALSE, FALSE, 0),    \* no "flux" key
          Rec(FALSE, ">=10 MeV", TRUE, TRUE, 3)}     \* no "time_tag" key

RECURSIVE SeqsUpTo(_, _)
SeqsUpTo(S, n) ==
    IF n = 0 THEN {<<>>}
    ELSE LET shorter == SeqsUpTo(S, n - 1)
         IN  shorter \cup {Append(s, x) : s \in {t \in shorter : Len(t) = n - 1}, x \in S}

\* what .json() can return: a list of records, an object, a scalar, null
Responses ==
    {JList(s) : s \in SeqsUpTo(FluxRecords, MaxRecords)}
    \cup {JObject({}), JObject({"message"}), JScalar(TRUE), JScalar(FALSE), None}

\* what the request can do: answer with a body that parses, answer with a
\* body that does not, raise (connection refused, reset, ...), or stay silent:
\* requests.get is called without timeout=, and then waits for as long as the
\* server keeps the connection open without answering
Outcomes ==
    {[how |-> "json", body |-> r] : r \in Responses}
    \cup {[how |-> h, body |-> None] : h \in {"bad_body", "raise", "silent"}}

---------------------------------------------------------------------------
(* fetch_json, lines 23-28 *)

\* a call's result: the value returned, the exception that left the call, or
\* no result at all because the call has not come back
Returned(val) == [raised |-> "none", value |-> val]
Raised(e) == [raised |-> e, value |-> None]
Pending == [raised |-> "pending", value |-> None]

\* the same function with `except ValueError:` in place of the bare except
fetch_json_narrow(o) ==
    CASE o.how = "json" -> Returned(o.body)
      [] o.how = "bad_body" -> Returned(None)
      [] o.how = "silent" -> Pending
      [] OTHER -> Raised("ConnectionError")

\* try: return requests.get(url).json()   except: return None
fetch_json(o) ==
    CASE o.how = "json" -> Returned(o.body)
      [] o.how = "silent" -> Pending
      [] OTHER -> Returned(None)

---------------------------------------------------------------------------
(* Unbound names *)

\* the keys of the mapping fetch_space_radiation_data returns, lines 574-586
RadiationKeys == {"iss", "lunar", "mars_transit", "deep_space"}

BlankRisk ==
    /\ mission_days = 0 /\ shielding_material = "" /\ data = None
    /\ flux = Num(0) /\ notice = ""
    /\ base_dose_per_day = Num(0) /\ daily_dose = Num(0) /\ total_dose = Num(0)
    /\ risk_percent = Num(0) /\ dose_over_time = <<>>
BlankBio ==
    /\ age = 0 /\ gender = "" /\ days = 0 /\ raw_dose = Num(0)
    /\ adjusted_dose = Num(0) /\ effect = "" /\ chart_labels = <<>>
BlankSEU ==
    /\ mission_profile = "" /\ duration = 0 /\ shielding = "" /\ sensitivity = ""
    /\ total_seus = Num(0) /\ risk = ""
BlankCmp ==
    /\ radiation_data = [k \in RadiationKeys |-> 0]
    /\ material = "" /\ thickness = 0 /\ shielding_factor = Num(0)
    /\ solar_phase = "" /\ mission = "" /\ cmp_duration = 0
    /\ cmp_total_dose = Num(0)
BlankMC == simulated_doses = <<>> /\ simulated_failures = <<>>
BlankMap ==
    /\ iss = "" /\ csv = "" /\ station_counts = <<>>
    /\ intensity_options = {} /\ markers = <<>>
BlankWeather ==
    /\ proton_latest = Num(0) /\ proton_notice = ""
    /\ xray_notice = "" /\ kp_notice = ""
BlankMemo ==
    /\ memo = [full |-> FALSE, value |-> None, age |-> 0]
    /\ served = [hit |-> FALSE, age |-> 0]
BlankKey == table = "" /\ key = "" /\ looked_up = [raised |-> "", value |-> 0]

\* the next tab begins: the names of the tab before it are dead
UnbindRisk ==
    /\ mission_days' = 0 /\ shielding_material' = "" /\ data' = None
    /\ flux' = Num(0) /\ notice' = ""
    /\ base_dose_per_day' = Num(0) /\ daily_dose' = Num(0) /\ total_dose' = Num(0)
    /\ risk_percent' = Num(0) /\ dose_over_time' = <<>>
UnbindMap ==
    /\ iss' = "" /\ csv' = "" /\ station_counts' = <<>>
    /\ intensity_options' = {} /\ markers' = <<>>
UnbindBio ==
    /\ age' = 0 /\ gender' = "" /\ days' = 0 /\ raw_dose' = Num(0)
    /\ adjusted_dose' = Num(0) /\ effect' = "" /\ chart_labels' = <<>>
UnbindSEU ==
    /\ mission_profile' = "" /\ duration' = 0 /\ shielding' = "" /\ sensitivity' = ""
    /\ total_seus' = Num(0) /\ risk' = ""
UnbindCmp ==
    /\ radiation_data' = [k \in RadiationKeys |-> 0]
    /\ material' = "" /\ thickness' = 0 /\ shielding_factor' = Num(0)
    /\ solar_phase' = "" /\ mission' = "" /\ cmp_duration' = 0
    /\ cmp_total_dose' = Num(0)

\* every name of every tab unbound
Blank ==
    /\ exc = "none" /\ upstream = [how |-> "", body |-> None]
    /\ BlankRisk /\ BlankBio /\ BlankSEU /\ BlankCmp /\ BlankMC /\ BlankMap
    /\ BlankWeather

Init ==
    /\ pc = "tab0_widgets" /\ Blank /\ BlankMemo /\ BlankKey
    /\ probe = 0 /\ probe_effect = "" /\ probe_risk = ""

\* an uncaught exception ends the run: Streamlit shows it and stops the script
Crash(e) == pc' = "crashed" /\ exc' = e

\* a call that does not come back: the run stays inside it
Block == pc' = "blocked" /\ exc' = exc

---------------------------------------------------------------------------
(* Tab 0: Radiation Risk Calculator, lines 54-116 *)

SliderDefault == 180
SliderMax == 1000
\* st.slider(..., 1, 1000, 180): the values explored
Durations == (1..MaxDays) \cup {SliderDefault, SliderMax}

\* shield_factors, lines 75-84, in hundredths
shield_factors ==
    [m \in {"None", "Aluminum", "Polyethylene", "Lead", "Water", "Titanium",
            "Carbon Fiber", "Hydrogen-rich Plastic"} |->
        CASE m = "None" -> 100
          [] m = "Aluminum" -> 70
          [] m = "Polyethylene" -> 50
          [] m = "Lead" -> 30
          [] m = "Water" -> 60
          [] m = "Titanium" -> 75
          [] m = "Carbon Fiber" -> 65
          [] m = "Hydrogen-rich Plastic" -> 40]

\* the options of the selectbox, lines 57-60
ShieldingOptions ==
    {"None", "Aluminum", "Polyethylene", "Lead", "Water", "Titanium",
     "Carbon Fiber", "Hydrogen-rich Plastic"}

\* lines 56-60
RiskWidgets ==
    /\ pc = "tab0_widgets"
    /\ \E d \in Durations, m \in ShieldingOptions :
          /\ mission_days' = d
          /\ shielding_material' = m
    /\ pc' = "tab0_fetch"
    /\ UNCHANGED <<exc, upstream, data, flux, notice, base_dose_per_day,
                   daily_dose, total_dose, risk_percent, dose_over_time,
                   bio_vars, seu_vars, cmp_vars, probe_vars,
                   mc_vars, map_vars, weather_vars, aside_vars>>

\* line 63: data = fetch_json(url)
FetchFlux ==
    /\ pc = "tab0_fetch"
    /\ \E o \in Outcomes :
          /\ upstream' = o
          /\ LET r == fetch_json(o)
             IN  CASE r.raised = "none" ->
                         data' = r.value /\ pc' = "tab0_flux" /\ exc' = exc
                   [] r.raised = "pending" -> data' = data /\ Block
                   [] OTHER -> data' = data /\ Crash(r.raised)
    /\ UNCHANGED <<mission_days, shielding_material, flux, notice,
                   base_dose_per_day, daily_dose, total_dose, risk_percent,
                   dose_over_time, bio_vars, seu_vars, cmp_vars, probe_vars,
                   mc_vars, map_vars, weather_vars, aside_vars>>

\* pd.to_numeric(..., errors='coerce') of one record's flux cell: a number is
\* kept, a missing cell and a string that is no number become NaN
to_numeric(r) == IF r.has_flux /\ r.numeric THEN Num(r.v) ELSE NaN

\* lines 65-68 on a truthy data: the flux of the last row, or the exception
\* pandas raises.  A column exists when some record has its key.
LiveFlux(d) ==
    CASE d.kind # "list" -> Raised("ValueError")              \* pd.DataFrame(data)
      [] d.kind = "list" /\ \A i \in 1..Len(d.items) : ~d.items[i].has_time
            -> Raised("KeyError")                              \* df['time_tag']
      [] d.kind = "list" /\ (\E i \in 1..Len(d.items) : d.items[i].has_time)
                         /\ (\A i \in 1..Len(d.items) : ~d.items[i].has_flux)
            -> Raised("KeyError")                              \* df['flux']
      [] OTHER -> Returned(to_numeric(d.items[Len(d.items)]))  \* .iloc[-1]

FallbackFlux == 100

\* lines 64-72
SelectFlux ==
    /\ pc = "tab0_flux"
    /\ IF data.truthy
       THEN LET r == LiveFlux(data)
            IN  IF r.raised = "none"
                THEN flux' = r.value /\ notice' = "live"
                     /\ pc' = "tab0_dose" /\ exc' = exc
                ELSE flux' = flux /\ notice' = notice /\ Crash(r.raised)
       ELSE flux' = Num(FallbackFlux) /\ notice' = "fallback"
            /\ pc' = "tab0_dose" /\ exc' = exc
    /\ UNCHANGED <<upstream, mission_days, shielding_material, data,
                   base_dose_per_day, daily_dose, total_dose, risk_percent,
                   dose_over_time, bio_vars, seu_vars, cmp_vars, probe_vars,
                   mc_vars, map_vars, weather_vars, aside_vars>>

\* np.arange(1, n): the end taken as inclusive
arange1_short(n) == [i \in 1..(n - 1) |-> i]

\* np.arange(1, n + 1)
arange1(n) == [i \in 1..n |-> i]

\* the same estimate without the 5 % per sievert: total_dose / 1000
RiskPercent_plain(total) == FMul(total, 1)

\* line 88: (total_dose / 1000) * 5, from 1e-7 mSv to 1e-10 percent
RiskPercent(total) == FMul(total, 5)

\* lines 74-95.  Units: base_dose_per_day 1e-5 mSv, daily_dose and total_dose
\* and dose_over_time 1e-7 mSv, risk_percent 1e-10 percent.
ComputeDose ==
    /\ pc = "tab0_dose"
    /\ base_dose_per_day' = FMul(flux, 5)
    /\ daily_dose' = FMul(base_dose_per_day', shield_factors[shielding_material])
    /\ total_dose' = FMul(daily_dose', mission_days)
    /\ risk_percent' = RiskPercent(total_dose')
    /\ LET ds == arange1(mission_days)
       IN  dose_over_time' = [i \in 1..Len(ds) |-> FMul(daily_dose', ds[i])]
    /\ pc' = "tab0_mc"
    /\ UNCHANGED <<exc, upstream, mission_days, shielding_material, data, flux,
                   notice, bio_vars, seu_vars, cmp_vars, probe_vars,
                   mc_vars, map_vars, weather_vars, aside_vars>>

\* The standard normal deviates the draws are followed on, in whole standard
\* deviations.  A normal deviate has no bound: -11 and -6 are rare, not
\* impossible.
ZValues == {-11, -6, 0, 2}

\* one draw of np.random.normal(loc, scale = loc / per): loc + z * scale, in
\* the unit of loc divided by per
Draw(loc, per, z) == Num(loc.v * (per + z))

\* line 107: np.random.normal(loc=total_dose, scale=0.1 * total_dose, size=1000)
\* raises ValueError("scale < 0") for a negative scale.  A NaN scale passes and
\* gives 1000 NaN draws, which ax2.hist (line 111) refuses: np.histogram raises
\* ValueError("autodetected range of [nan, nan] is not finite").  The 1000
\* draws are independent and treated alike: simulated_doses holds one of them,
\* in units of 1e-8 mSv.
SimulateDoses ==
    /\ pc = "tab0_mc"
    /\ IF FLt(total_dose, 0)
       THEN Crash("ValueError") /\ simulated_doses' = simulated_doses
       ELSE IF total_dose.nan
            THEN Crash("ValueError") /\ simulated_doses' = simulated_doses
            ELSE /\ \E z \in ZValues :
                       simulated_doses' = <<Draw(total_dose, 10, z)>>
                 /\ pc' = "tab1_map" /\ exc' = exc
    /\ UNCHANGED <<upstream, risk_vars, bio_vars, seu_vars, cmp_vars, probe_vars,
                   simulated_failures, map_vars, weather_vars, aside_vars>>

---------------------------------------------------------------------------
(* Tab 1: Live Cosmic Ray Shower Map, lines 120-265 *)

\* what the Open Notify request (line 143) can do: answer with a position,
\* answer with JSON that holds none, answer with a body that does not parse,
\* raise, or stay silent (no timeout= here either)
IssOutcomes == {"position", "no_position", "bad_body", "raise", "silent"}

\* lines 142-153: everything the request and the two float() calls raise is
\* caught by the bare except and ends in the warning of line 153
ISSTracker ==
    /\ pc = "tab1_map"
    /\ \E o \in IssOutcomes :
          /\ iss' = o
          /\ IF o = "silent" THEN Block ELSE pc' = "tab1_csv" /\ exc' = exc
    /\ upstream' = [how |-> "", body |-> None]
    /\ UnbindRisk
    /\ simulated_doses' = <<>>
    /\ UNCHANGED <<bio_vars, seu_vars, cmp_vars, probe_vars, simulated_failures,
                   csv, station_counts, intensity_options, markers,
                   weather_vars, aside_vars>>

\* the latest row of TimeStamp.csv holds at most MaxStations stations
MaxStations == 2
\* relative neutron counts of a station; NaN is the "null" cell after
\* pd.to_numeric(errors="coerce") (lines 167-171)
Counts == {NaN} \cup {Num(c) : c \in {0, 100, 101, 150, 199, 200, 201, 300}}
\* pd.read_csv("TimeStamp.csv"): a file with rows, a file with its header
\* only, no file
CsvOutcomes == {"rows", "empty", "missing"}

\* lines 164-174, outside any try: read_csv raises FileNotFoundError for a
\* missing file, .iloc[-1] raises IndexError on a frame without rows
ReadStations ==
    /\ pc = "tab1_csv"
    /\ \E c \in CsvOutcomes :
          /\ csv' = c
          /\ CASE c = "rows" ->
                    /\ \E row \in SeqsUpTo(Counts, MaxStations) :
                          station_counts' = row
                    /\ pc' = "tab1_plot" /\ exc' = exc
               [] c = "empty" ->
                    station_counts' = station_counts /\ Crash("IndexError")
               [] c = "missing" ->
                    station_counts' = station_counts /\ Crash("FileNotFoundError")
    /\ UNCHANGED <<upstream, risk_vars, bio_vars, seu_vars, cmp_vars, probe_vars,
                   mc_vars, iss, intensity_options, markers, weather_vars,
                   aside_vars>>

\* st.multiselect(options=["Low", "Moderate", "High"], default=[]), lines 213-217
IntensityLevels == {"Low", "Moderate", "High"}

\* lines 219-227
get_intensity_level(count) ==
    IF count.nan THEN "No Data"
    ELSE IF count.v > 200 THEN "High"
    ELSE IF count.v < 200 /\ count.v > 100 THEN "Moderate"
    ELSE "Low"

\* lines 229-235; every comparison with NaN is false
get_color(count) ==
    IF ~count.nan /\ count.v > 200 THEN "red"
    ELSE IF ~count.nan /\ count.v < 200 /\ count.v > 100 THEN "orange"
    ELSE "green"

\* lines 238-261: one marker per station whose count is a number and whose
\* level is among the selected ones; the colour is the one of line 253
Markers(row, options) ==
    LET all == [i \in 1..Len(row) |->
                   [count |-> row[i],
                    intensity |-> get_intensity_level(row[i]),
                    color |-> get_color(row[i])]]
        shown(m) == ~m.count.nan /\ m.intensity \in options
    IN  SelectSeq(all, shown)

\* lines 213-264
PlotStations ==
    /\ pc = "tab1_plot"
    /\ \E options \in SUBSET IntensityLevels :
          /\ intensity_options' = options
          /\ markers' = Markers(station_counts, options)
    /\ pc' = "tab2_widgets"
    /\ UNCHANGED <<exc, upstream, risk_vars, bio_vars, seu_vars, cmp_vars,
                   probe_vars, mc_vars, iss, csv, station_counts, weather_vars,
                   aside_vars>>

---------------------------------------------------------------------------
(* Tab 2: Biological Effects Visualizer, lines 268-411 *)

\* st.slider("Select Age (Years)", 0, 100, 30): the values explored
Ages == {0, 9, 10, 19, 20, 30, 60, 61, 100}
GenderOptions == {"Male", "Female", "Prefer not to say"}
\* st.slider("Select Duration (Days)", 0, 36500, 30): the values explored
BioDays == (0..MaxDays) \cup {30, 1000, 5000, 15000, 29000, 36500}

\* lines 278-282
BioWidgets ==
    /\ pc = "tab2_widgets"
    /\ \E a \in Ages, g \in GenderOptions, d \in BioDays :
          age' = a /\ gender' = g /\ days' = d
    /\ UnbindMap
    /\ pc' = "tab2_dose"
    /\ UNCHANGED <<exc, upstream, risk_vars, raw_dose, adjusted_dose, effect,
                   chart_labels, seu_vars, cmp_vars, probe_vars,
                   mc_vars, weather_vars, aside_vars>>

\* the same chain with its last test written age >= 60
age_modifier_ge(a) ==
    IF a < 10 THEN 14
    ELSE IF a < 20 THEN 12
    ELSE IF a >= 60 THEN 9
    ELSE 10

\* lines 291-301, in tenths
age_modifier(a) ==
    IF a < 10 THEN 14
    ELSE IF a < 20 THEN 12
    ELSE IF a > 60 THEN 9
    ELSE 10

\* lines 292, 303-310, in tenths
gender_modifier(g) ==
    IF g = "Female" THEN 11
    ELSE IF g = "Male" THEN 10
    ELSE 10

\* BASE_RATE = 0.00104, line 285, in 1e-5 mSv/day
BASE_RATE == 104

\* lines 285-313.  Units: raw_dose 1e-5 mSv, adjusted_dose 1e-7 mSv.
AdjustDose ==
    /\ pc = "tab2_dose"
    /\ raw_dose' = Num(days * BASE_RATE)
    /\ adjusted_dose' = FMul(FMul(raw_dose', age_modifier(age)), gender_modifier(gender))
    /\ pc' = "tab2_effect"
    /\ UNCHANGED <<exc, upstream, risk_vars, age, gender, days, effect,
                   chart_labels, seu_vars, cmp_vars, probe_vars,
                   mc_vars, map_vars, weather_vars, aside_vars>>

\* one mSv in the unit of adjusted_dose
mSv == 10000000

\* the same chain with `<=` in its first test
EffectOf_le(x) ==
    IF ~x.nan /\ x.v <= 1 * mSv THEN "No observable effects."
    ELSE IF FLt(x, 5 * mSv) THEN "Minor biological impact."
    ELSE IF FLt(x, 15 * mSv) THEN "Mild ARS possible."
    ELSE IF FLt(x, 30 * mSv) THEN "Severe ARS symptoms."
    ELSE "Potentially life-threatening dose."

\* the same chain with its third bound typed 10 for 15
EffectOf_10(x) ==
    IF FLt(x, 1 * mSv) THEN "No observable effects."
    ELSE IF FLt(x, 5 * mSv) THEN "Minor biological impact."
    ELSE IF FLt(x, 10 * mSv) THEN "Mild ARS possible."
    ELSE IF FLt(x, 30 * mSv) THEN "Severe ARS symptoms."
    ELSE "Potentially life-threatening dose."

\* the if/elif chain of lines 317-331
EffectOf(x) ==
    IF FLt(x, 1 * mSv) THEN "No observable effects."
    ELSE IF FLt(x, 5 * mSv) THEN "Minor biological impact."
    ELSE IF FLt(x, 15 * mSv) THEN "Mild ARS possible."
    ELSE IF FLt(x, 30 * mSv) THEN "Severe ARS symptoms."
    ELSE "Potentially life-threatening dose."

\* lines 317-331
ClassifyEffect ==
    /\ pc = "tab2_effect"
    /\ effect' = EffectOf(adjusted_dose)
    /\ pc' = "tab2_chart"
    /\ UNCHANGED <<exc, upstream, risk_vars, age, gender, days, raw_dose,
                   adjusted_dose, chart_labels, seu_vars, cmp_vars, probe_vars,
                   mc_vars, map_vars, weather_vars, aside_vars>>

\* lines 348-350
thresholds == <<0, 1, 5, 15, 30, 50>>
labels == <<"None", "Minor", "Mild ARS", "Severe ARS", "Lethal", "Extreme/Fatal">>

\* lines 353-362: one band and one annotation per i in range(len(thresholds) - 1)
ChartAnnotations == [i \in 1..(Len(thresholds) - 1) |-> labels[i]]

\* lines 348-380
DrawChart ==
    /\ pc = "tab2_chart"
    /\ chart_labels' = ChartAnnotations
    /\ pc' = "tab3_widgets"
    /\ UNCHANGED <<exc, upstream, risk_vars, age, gender, days, raw_dose,
                   adjusted_dose, effect, seu_vars, cmp_vars, probe_vars,
                   mc_vars, map_vars, weather_vars, aside_vars>>

---------------------------------------------------------------------------
(* Tab 3: Effects on Electronics, lines 415-508 *)

\* lines 425-430, in 1e-4 upsets/day
mission_base_rates ==
    [p \in {"ISS (LEO)", "Lunar Orbit", "Mars Transit", "Deep Space"} |->
        CASE p = "ISS (LEO)" -> 5
          [] p = "Lunar Orbit" -> 20
          [] p = "Mars Transit" -> 40
          [] p = "Deep Space" -> 60]

\* lines 434-438, in tenths
sensitivity_factor ==
    [s \in {"Standard", "Hardened", "Critical"} |->
        CASE s = "Standard" -> 10
          [] s = "Hardened" -> 5
          [] s = "Critical" -> 20]

\* lines 439-443, in tenths
seu_shielding_factor ==
    [l \in {"None", "Light", "Heavy"} |->
        CASE l = "None" -> 10
          [] l = "Light" -> 6
          [] l = "Heavy" -> 3]

\* st.slider("Mission Duration (days)", 1, 1000, 180): the values explored
SEUDurations == Durations \cup {125, 625}

\* the options of the three selectboxes, lines 419-422
ProfileOptions == {"ISS (LEO)", "Lunar Orbit", "Mars Transit", "Deep Space"}
LevelOptions == {"None", "Light", "Heavy"}
SensitivityOptions == {"Standard", "Hardened", "Critical"}

\* lines 419-422
SEUWidgets ==
    /\ pc = "tab3_widgets"
    /\ \E p \in ProfileOptions, d \in SEUDurations, l \in LevelOptions,
          s \in SensitivityOptions :
          mission_profile' = p /\ duration' = d /\ shielding' = l /\ sensitivity' = s
    /\ UnbindBio
    /\ pc' = "tab3_seu"
    /\ UNCHANGED <<exc, upstream, risk_vars, total_seus, risk, cmp_vars, probe_vars,
                   mc_vars, map_vars, weather_vars, aside_vars>>

\* lines 431-447.  Unit of total_seus: 1e-6 upsets.
ComputeSEU ==
    /\ pc = "tab3_seu"
    /\ LET base_seu_rate == mission_base_rates[mission_profile]
           adjusted_rate == Num(base_seu_rate * sensitivity_factor[sensitivity]
                                * seu_shielding_factor[shielding])
       IN  total_seus' = FMul(adjusted_rate, duration)
    /\ pc' = "tab3_risk"
    /\ UNCHANGED <<exc, upstream, risk_vars, bio_vars, mission_profile, duration,
                   shielding, sensitivity, risk, cmp_vars, probe_vars,
                   mc_vars, map_vars, weather_vars, aside_vars>>

\* one upset in the unit of total_seus
Upset == 1000000

\* the same chain with `<=` in its tests
RiskOf_le(x) ==
    IF ~x.nan /\ x.v <= 1 * Upset THEN "Low"
    ELSE IF ~x.nan /\ x.v <= 5 * Upset THEN "Moderate"
    ELSE "High"

\* the if/elif chain of lines 450-458
RiskOf(x) ==
    IF FLt(x, 1 * Upset) THEN "Low"
    ELSE IF FLt(x, 5 * Upset) THEN "Moderate"
    ELSE "High"

\* lines 450-461
ClassifySEU ==
    /\ pc = "tab3_risk"
    /\ risk' = RiskOf(total_seus)
    /\ pc' = "tab3_mc"
    /\ UNCHANGED <<exc, upstream, risk_vars, bio_vars, mission_profile, duration,
                   shielding, sensitivity, total_seus, cmp_vars, probe_vars,
                   mc_vars, map_vars, weather_vars, aside_vars>>

\* np.clip(x, 0, None), elementwise
np_clip_min0(x) == IF FLt(x, 0) THEN Num(0) ELSE x

\* lines 477-478: np.random.normal(loc=total_seus, scale=0.2 * total_seus,
\* size=1000), then np.clip(simulated_failures, 0, None).  total_seus is a
\* product of positive table entries and a duration >= 1, so the scale is
\* never negative.  simulated_failures holds one of the 1000 draws, in units
\* of 2e-7 upsets.
SimulateFailures ==
    /\ pc = "tab3_mc"
    /\ \E z \in ZValues :
          simulated_failures' = <<np_clip_min0(Draw(total_seus, 5, z))>>
    /\ pc' = "tab5_fetch"
    /\ UNCHANGED <<exc, upstream, risk_vars, bio_vars, seu_vars, cmp_vars,
                   probe_vars, simulated_doses, map_vars, weather_vars,
                   aside_vars>>

---------------------------------------------------------------------------
(* Tab 5: Mission Dose Comparator, lines 561-723 *)

\* the keys the script reads from the ESA answer, lines 576-578
EsaKeys == {"lunar_surface", "mars_transit", "galactic"}
\* the dose rate an answer gives for a key it holds, in 1e-2 mSv/day
EsaLive ==
    [k \in EsaKeys |->
        CASE k = "lunar_surface" -> 40
          [] k = "mars_transit" -> 200
          [] k = "galactic" -> 300]
\* the fallback mapping, lines 581-586, in 1e-2 mSv/day
RadiationDefaults ==
    [k \in RadiationKeys |->
        CASE k = "iss" -> 30
          [] k = "lunar" -> 50
          [] k = "mars_transit" -> 180
          [] k = "deep_space" -> 250]

\* what the ESA request can do: answer with an object holding some of the
\* keys, with JSON that is no object, with a body that does not parse, raise,
\* or stay silent (line 571 passes no timeout=)
EsaOutcomes ==
    {[how |-> "json", body |-> JObject(k)] : k \in SUBSET EsaKeys}
    \cup {[how |-> "json", body |-> r] : r \in {JList(<<>>), JScalar(TRUE), None}}
    \cup {[how |-> h, body |-> None] : h \in {"bad_body", "raise", "silent"}}

\* esa_data.get(k, default) on an object
dict_get(body, k, default) == IF k \in body.keys THEN EsaLive[k] ELSE default

\* the same function reading esa_data["lunar_surface"], ... : a missing key
\* raises KeyError inside the try and the whole mapping falls back
fetch_space_radiation_data_index(o) ==
    CASE o.how = "silent" -> Pending
      [] o.how = "json" /\ o.body.kind = "object" /\ o.body.keys = EsaKeys ->
            Returned([k \in RadiationKeys |->
                CASE k = "iss" -> 30
                  [] k = "lunar" -> EsaLive["lunar_surface"]
                  [] k = "mars_transit" -> EsaLive["mars_transit"]
                  [] k = "deep_space" -> EsaLive["galactic"]])
      [] OTHER -> Returned(RadiationDefaults)

\* lines 567-587.  .get on a list, a bool or None raises AttributeError, a
\* body that is no JSON raises in .json(), a failed request raises in
\* requests.get: `except Exception` catches each and returns the fallback.
fetch_space_radiation_data(o) ==
    CASE o.how = "silent" -> Pending
      [] o.how = "json" /\ o.body.kind = "object" ->
            Returned([k \in RadiationKeys |->
                CASE k = "iss" -> 30
                  [] k = "lunar" -> dict_get(o.body, "lunar_surface", 50)
                  [] k = "mars_transit" -> dict_get(o.body, "mars_transit", 180)
                  [] k = "deep_space" -> dict_get(o.body, "galactic", 250)])
      [] OTHER -> Returned(RadiationDefaults)

\* line 590: radiation_data = fetch_space_radiation_data()
FetchRadiation ==
    /\ pc = "tab5_fetch"
    /\ \E o \in EsaOutcomes :
          /\ upstream' = o
          /\ LET r == fetch_space_radiation_data(o)
             IN  CASE r.raised = "none" ->
                         radiation_data' = r.value /\ pc' = "tab5_shield" /\ exc' = exc
                   [] r.raised = "pending" ->
                         radiation_data' = radiation_data /\ Block
                   [] OTHER -> radiation_data' = radiation_data /\ Crash(r.raised)
    /\ UnbindSEU
    /\ simulated_failures' = <<>>
    /\ UNCHANGED <<risk_vars, bio_vars, material, thickness, shielding_factor,
                   solar_phase, mission, cmp_duration, cmp_total_dose,
                   probe_vars, simulated_doses, map_vars, weather_vars,
                   aside_vars>>

\* lines 609-614, in hundredths per g/cm2
attenuation_factors ==
    [m \in {"Aluminum", "Polyethylene", "Water", "Regolith"} |->
        CASE m = "Aluminum" -> 7
          [] m = "Polyethylene" -> 5
          [] m = "Water" -> 6
          [] m = "Regolith" -> 4]

\* st.slider("Thickness (g/cm2)", 0, 50, 10)
ThicknessMax == 50

\* np.exp(-n/100) in units of 1e-4, for n >= 0: exp(-n/100) is
\* exp(-1)^(n div 100) * exp(-(n mod 100)/100); the second factor is summed
\* from its Taylor series in units of 1e-6, exp(-1) is 0.3679.
ExpScale == 10000
RECURSIVE TaylorExpNeg(_, _, _)
TaylorExpNeg(r, k, term) ==
    IF term = 0 THEN 0
    ELSE term - TaylorExpNeg(r, k + 1, (term * r) \div (100 * (k + 1)))
RECURSIVE TimesInvE(_, _)
TimesInvE(x, q) == IF q = 0 THEN x ELSE TimesInvE((x * 3679) \div ExpScale, q - 1)
np_exp_neg(n) ==
    TimesInvE((TaylorExpNeg(n % 100, 0, 1000000) + 50) \div 100, n \div 100)

\* the same factor with a linear falloff, 1 - thickness * coefficient
ShieldingFactor_linear(m, t) == Num(ExpScale - t * attenuation_factors[m] * 100)

\* line 615: np.exp(-thickness * attenuation_factors[material]), in units of 1e-4
ShieldingFactor(m, t) == Num(np_exp_neg(t * attenuation_factors[m]))

\* the options of the selectbox, lines 597-601
MaterialOptions == {"Aluminum", "Polyethylene", "Water", "Regolith"}

\* lines 596-615
ShieldingConfig ==
    /\ pc = "tab5_shield"
    /\ \E m \in MaterialOptions, t \in 0..ThicknessMax :
          /\ material' = m /\ thickness' = t
          /\ shielding_factor' = ShieldingFactor(m, t)
    /\ upstream' = [how |-> "", body |-> None]
    /\ pc' = "tab5_mission"
    /\ UNCHANGED <<exc, risk_vars, bio_vars, seu_vars, radiation_data,
                   solar_phase, mission, cmp_duration, cmp_total_dose,
                   probe_vars, mc_vars, map_vars, weather_vars, aside_vars>>

\* lines 618-627, in tenths
solar_modifiers ==
    [ph \in {"Solar Max (Lowest Radiation)", "Average",
             "Solar Min (Highest Radiation)"} |->
        CASE ph = "Solar Max (Lowest Radiation)" -> 7
          [] ph = "Average" -> 10
          [] ph = "Solar Min (Highest Radiation)" -> 13]
\* the options of the radio, lines 618-622
SolarOptions ==
    {"Solar Max (Lowest Radiation)", "Average", "Solar Min (Highest Radiation)"}
\* the options of the selectbox, lines 631-635
MissionOptions ==
    {"ISS (Low Earth Orbit)", "Lunar Orbit", "Lunar Surface", "Mars Transit",
     "Deep Space"}

\* lines 644-650, in 1e-3 mSv/day
base_doses(rd) ==
    [m \in {"ISS (Low Earth Orbit)", "Lunar Orbit", "Lunar Surface",
            "Mars Transit", "Deep Space"} |->
        CASE m = "ISS (Low Earth Orbit)" -> rd["iss"] * 10
          [] m = "Lunar Orbit" -> rd["lunar"] * 10
          [] m = "Lunar Surface" -> rd["lunar"] * 12
          [] m = "Mars Transit" -> rd["mars_transit"] * 10
          [] m = "Deep Space" -> rd["deep_space"] * 10]

\* st.slider("Duration (days)", 1, 1000, 180): the values explored
CmpDurations == {1, SliderDefault, SliderMax}

\* lines 618-656.  adjusted_dose_rate is the product of a base dose (1e-3),
\* shielding_factor (1e-4) and a solar modifier (1e-1), so in 1e-8 mSv/day;
\* cmp_total_dose keeps its first five decimals, in 1e-5 mSv.
MissionDose ==
    /\ pc = "tab5_mission"
    /\ \E ph \in SolarOptions, m \in MissionOptions, d \in CmpDurations :
          /\ solar_phase' = ph /\ mission' = m /\ cmp_duration' = d
          /\ LET adjusted_dose_rate ==
                     base_doses(radiation_data)[m] * shielding_factor.v
                     * solar_modifiers[ph]
             IN  cmp_total_dose' = Num((adjusted_dose_rate \div 1000) * d)
    /\ pc' = "tab6_open"
    /\ UNCHANGED <<exc, upstream, risk_vars, bio_vars, seu_vars, radiation_data,
                   material, thickness, shielding_factor, probe_vars, mc_vars,
                   map_vars, weather_vars, aside_vars>>

---------------------------------------------------------------------------
(* Tab 6: Real-Time Solar System Monitor, lines 729-822 *)

\* lines 729-750: the tab opens with its imports and the embedded NASA view
OpenMonitor ==
    /\ pc = "tab6_open"
    /\ UnbindCmp
    /\ pc' = "tab6_proton"
    /\ UNCHANGED <<exc, upstream, risk_vars, bio_vars, seu_vars, probe_vars,
                   mc_vars, map_vars, weather_vars, aside_vars>>

\* lines 755-757, 767: the flux of the last record whose energy is
\* '>=10 MeV', or the exception on the way.  Iterating an object gives its
\* keys and p["time_tag"] on a string raises TypeError, as does iterating a
\* bool or None; a record of the channel without time_tag or flux raises
\* KeyError, float("n/a") ValueError, fluxes[-1] on no record IndexError.
LatestProtonFlux(d) ==
    LET channel == IF d.kind = "list"
                   THEN SelectSeq(d.items, LAMBDA p : p.energy = ">=10 MeV")
                   ELSE <<>>
    IN  CASE d.kind # "list" /\ ~(d.kind = "object" /\ d.keys = {}) ->
               Raised("TypeError")
          [] d.kind = "list" /\ (\E i \in 1..Len(channel) : ~channel[i].has_time) ->
               Raised("KeyError")
          [] d.kind = "list" /\ (\A i \in 1..Len(channel) : channel[i].has_time)
                            /\ (\E i \in 1..Len(channel) : ~channel[i].has_flux) ->
               Raised("KeyError")
          [] d.kind = "list" /\ (\A i \in 1..Len(channel) :
                                    channel[i].has_time /\ channel[i].has_flux)
                            /\ (\E i \in 1..Len(channel) : ~channel[i].numeric) ->
               Raised("ValueError")
          [] d.kind = "list" /\ Len(channel) > 0
                            /\ (\A i \in 1..Len(channel) :
                                    /\ channel[i].has_time /\ channel[i].has_flux
                                    /\ channel[i].numeric) ->
               Returned(Num(channel[Len(channel)].v))
          [] OTHER -> Raised("IndexError")

\* lines 753-772: `except Exception` turns every exception into st.error
ProtonMonitor ==
    /\ pc = "tab6_proton"
    /\ \E o \in Outcomes :
          /\ upstream' = o
          /\ CASE o.how = "silent" ->
                    proton_latest' = proton_latest /\ proton_notice' = proton_notice
                    /\ Block
               [] o.how = "json" /\ LatestProtonFlux(o.body).raised = "none" ->
                    /\ proton_latest' = LatestProtonFlux(o.body).value
                    /\ proton_notice' = IF proton_latest'.v > 100
                                        THEN "elevated" ELSE "normal"
                    /\ pc' = "tab6_xray" /\ exc' = exc
               [] OTHER ->
                    proton_latest' = proton_latest /\ proton_notice' = "error"
                    /\ pc' = "tab6_xray" /\ exc' = exc
    /\ UNCHANGED <<risk_vars, bio_vars, seu_vars, cmp_vars, probe_vars, mc_vars,
                   map_vars, xray_notice, kp_notice, aside_vars>>

\* what the X-ray and Kp requests can do: answer with a series the script
\* can plot, with JSON it cannot, with a body that does not parse, raise, or
\* stay silent
FeedOutcomes == {"usable", "unusable", "bad_body", "raise", "silent"}

\* lines 776-796
XRayMonitor ==
    /\ pc = "tab6_xray"
    /\ \E o \in FeedOutcomes :
          CASE o = "silent" -> xray_notice' = xray_notice /\ Block
            [] o = "usable" ->
                 /\ xray_notice' \in {"flare", "quiet"}
                 /\ pc' = "tab6_kp" /\ exc' = exc
            [] OTHER -> xray_notice' = "error" /\ pc' = "tab6_kp" /\ exc' = exc
    /\ upstream' = [how |-> "", body |-> None]
    /\ UNCHANGED <<risk_vars, bio_vars, seu_vars, cmp_vars, probe_vars, mc_vars,
                   map_vars, proton_latest, proton_notice, kp_notice, aside_vars>>

\* lines 799-822
KpMonitor ==
    /\ pc = "tab6_kp"
    /\ \E o \in FeedOutcomes :
          CASE o = "silent" -> kp_notice' = kp_notice /\ Block
            [] o = "usable" ->
                 /\ kp_notice' \in {"storm", "quiet"}
                 /\ pc' = "done" /\ exc' = exc
            [] OTHER -> kp_notice' = "error" /\ pc' = "done" /\ exc' = exc
    /\ UNCHANGED <<upstream, risk_vars, bio_vars, seu_vars, cmp_vars, probe_vars,
                   mc_vars, map_vars, proton_latest, proton_notice, xray_notice,
                   aside_vars>>

---------------------------------------------------------------------------
(* The run *)

Next ==
    \/ RiskWidgets \/ FetchFlux \/ SelectFlux \/ ComputeDose \/ SimulateDoses
    \/ ISSTracker \/ ReadStations \/ PlotStations
    \/ BioWidgets \/ AdjustDose \/ ClassifyEffect \/ DrawChart
    \/ SEUWidgets \/ ComputeSEU \/ ClassifySEU \/ SimulateFailures
    \/ FetchRadiation \/ ShieldingConfig \/ MissionDose
    \/ OpenMonitor \/ ProtonMonitor \/ XRayMonitor \/ KpMonitor

Spec == Init /\ [][Next]_vars

---------------------------------------------------------------------------
(* The classifiers on their whole domain.  The tabs reach only the values   *)
(* their sliders and tables produce (adjusted_dose never exceeds 58.5 mSv  *)
(* and is never exactly a band bound); here each chain is applied to a     *)
(* value drawn from a grid of its domain.  probe is in thousandths (of a   *)
(* mSv for the dose chain, of an upset for the SEU chain).                 *)

ProbeEdges == {1, 5, 15, 30, 50, 100}
Probes ==
    {k * 500 : k \in 0..MaxProbe}
    \cup {t * 1000 + d : t \in ProbeEdges, d \in {-1, 0, 1}}

InitClassify ==
    /\ pc = "probe" /\ Blank /\ BlankMemo /\ BlankKey
    /\ probe \in Probes /\ probe_effect = "" /\ probe_risk = ""

\* lines 317-331 on adjusted_dose = probe / 1000 mSv
ProbeEffect ==
    /\ pc = "probe" /\ probe_effect = ""
    /\ probe_effect' = EffectOf(Num(probe * (mSv \div 1000)))
    /\ UNCHANGED <<pc, exc, upstream, risk_vars, bio_vars, seu_vars, cmp_vars,
                   mc_vars, map_vars, weather_vars, aside_vars, probe, probe_risk>>

\* lines 450-458 on total_seus = probe / 1000
ProbeRisk ==
    /\ pc = "probe" /\ probe_risk = ""
    /\ probe_risk' = RiskOf(Num(probe * (Upset \div 1000)))
    /\ UNCHANGED <<pc, exc, upstream, risk_vars, bio_vars, seu_vars, cmp_vars,
                   mc_vars, map_vars, weather_vars, aside_vars, probe, probe_effect>>

NextClassify == ProbeEffect \/ ProbeRisk

SpecClassify == InitClassify /\ [][NextClassify]_vars

---------------------------------------------------------------------------
(* The memo of fetch_json over the reruns of the script.  st.cache_data    *)
(* stores what the function returns, under its argument, and returns the   *)
(* stored value to every call made before the entry is ttl seconds old.    *)
(* upstream is the outcome of the request whose result the memo holds.     *)

\* ttl=300, line 23, in seconds
ttl == 300

InitMemo ==
    /\ pc = "memo_call" /\ Blank /\ BlankMemo /\ BlankKey
    /\ probe = 0 /\ probe_effect = "" /\ probe_risk = ""

\* line 63 under the decorator of line 23.  fetch_json returns None where the
\* request failed, and a return value is stored whatever it is.
CachedFetch ==
    /\ pc = "memo_call"
    /\ IF memo.full /\ memo.age < ttl
       THEN /\ data' = memo.value
            /\ served' = [hit |-> TRUE, age |-> memo.age]
            /\ pc' = "memo_idle"
            /\ UNCHANGED <<exc, upstream, memo>>
       ELSE \E o \in Outcomes :
              /\ upstream' = o
              /\ LET r == fetch_json(o)
                 IN  CASE r.raised = "none" ->
                            /\ data' = r.value
                            /\ memo' = [full |-> TRUE, value |-> r.value, age |-> 0]
                            /\ served' = [hit |-> FALSE, age |-> 0]
                            /\ pc' = "memo_idle" /\ exc' = exc
                       [] r.raised = "pending" ->
                            UNCHANGED <<data, memo, served>> /\ Block
                       [] OTHER ->
                            UNCHANGED <<data, memo, served>> /\ Crash(r.raised)
    /\ UNCHANGED <<mission_days, shielding_material, flux, notice,
                   base_dose_per_day, daily_dose, total_dose, risk_percent,
                   dose_over_time, bio_vars, seu_vars, cmp_vars, probe_vars,
                   mc_vars, map_vars, weather_vars, key_vars>>

\* time passes between two runs: half a ttl, or a second less than a ttl;
\* an age beyond ttl is kept as ttl + 1
Elapse ==
    /\ pc = "memo_idle" /\ memo.full /\ memo.age <= ttl
    /\ \E dt \in {ttl \div 2, ttl - 1} :
          memo' = [memo EXCEPT !.age = IF @ + dt > ttl THEN ttl + 1 ELSE @ + dt]
    /\ UNCHANGED <<pc, exc, upstream, risk_vars, bio_vars, seu_vars, cmp_vars,
                   probe_vars, mc_vars, map_vars, weather_vars, served, key_vars>>

\* a widget changes and Streamlit runs the script again
Rerun ==
    /\ pc = "memo_idle"
    /\ pc' = "memo_call"
    /\ data' = None
    /\ UNCHANGED <<exc, upstream, mission_days, shielding_material, flux, notice,
                   base_dose_per_day, daily_dose, total_dose, risk_percent,
                   dose_over_time, bio_vars, seu_vars, cmp_vars, probe_vars,
                   mc_vars, map_vars, weather_vars, aside_vars>>

NextMemo == CachedFetch \/ Elapse \/ Rerun

SpecMemo == InitMemo /\ [][NextMemo]_vars

---------------------------------------------------------------------------
(* The table lookups as functions of their key.  The widgets hand the      *)
(* script one of their options; here each subscript is applied to every    *)
(* option of its widget and to keys no widget offers.                      *)

TableNames ==
    {"shield_factors", "mission_base_rates", "sensitivity_factor",
     "shielding_factor", "attenuation_factors", "solar_modifiers", "base_doses"}

\* the dict each subscript reads: lines 86, 431, 446, 615, 653-655
TableOf(n) ==
    CASE n = "shield_factors" -> shield_factors
      [] n = "mission_base_rates" -> mission_base_rates
      [] n = "sensitivity_factor" -> sensitivity_factor
      [] n = "shielding_factor" -> seu_shielding_factor
      [] n = "attenuation_factors" -> attenuation_factors
      [] n = "solar_modifiers" -> solar_modifiers
      [] n = "base_doses" -> base_doses(RadiationDefaults)

\* the widget whose selection is the key: lines 57, 419-422, 597, 618, 631
OptionsOf(n) ==
    CASE n = "shield_factors" -> ShieldingOptions
      [] n = "mission_base_rates" -> ProfileOptions
      [] n = "sensitivity_factor" -> SensitivityOptions
      [] n = "shielding_factor" -> LevelOptions
      [] n = "attenuation_factors" -> MaterialOptions
      [] n = "solar_modifiers" -> SolarOptions
      [] n = "base_doses" -> MissionOptions

\* keys that no table declares
Undeclared == {"Steel", "Kevlar", "aluminum"}

\* d[k] on a Python dict: the value, or KeyError
Subscript(d, k) ==
    IF k \in DOMAIN d
    THEN [raised |-> "none", value |-> d[k]]
    ELSE [raised |-> "KeyError", value |-> 0]

InitLookup ==
    /\ pc = "lookup" /\ Blank /\ BlankMemo
    /\ probe = 0 /\ probe_effect = "" /\ probe_risk = ""
    /\ table \in TableNames
    /\ key \in OptionsOf(table) \cup Undeclared
    /\ looked_up = [raised |-> "", value |-> 0]

\* the subscript as the script writes it: no test of the key comes before it
LookUp ==
    /\ pc = "lookup"
    /\ looked_up' = Subscript(TableOf(table), key)
    /\ pc' = "looked_up"
    /\ UNCHANGED <<exc, upstream, risk_vars, bio_vars, seu_vars, cmp_vars,
                   probe_vars, mc_vars, map_vars, weather_vars, memo_vars,
                   table, key>>

NextLookup == LookUp

SpecLookup == InitLookup /\ [][NextLookup]_vars

---------------------------------------------------------------------------
(* Properties *)

Range(f) == {f[i] : i \in DOMAIN f}

\* the names of tab 0 are bound up to and including the dose
DoseComputed == pc \in {"tab0_mc", "tab1_map"}
FluxSelected == pc \in {"tab0_dose", "tab0_mc", "tab1_map"}
\* the names of tab 2, tab 3, tab 5 are bound and their last step has run
ChartDrawn == pc = "tab3_widgets"
SEUClassified == pc \in {"tab3_mc", "tab5_fetch"}
ShieldConfigured == pc = "tab5_mission"

FetchFailed == upstream.how \in {"raise", "bad_body"}

\* C1: when the request raises (a timeout included) or its body does not
\* parse, fetch_json returns None, no exception ends the run, and a None
\* data selects flux 100 with the fallback notice; the daily dose is then
\* computed from that flux.
C1_FetchFailureFallsBack ==
    /\ FetchFailed => (exc = "none" /\ data = None)
    /\ (FluxSelected /\ data = None) =>
          (flux = Num(FallbackFlux) /\ notice = "fallback")
    /\ (FetchFailed /\ DoseComputed) =>
          daily_dose = Num(FallbackFlux * 5 * shield_factors[shielding_material])

C1_Witness ==
    /\ upstream.how = "raise" /\ pc = "tab1_map"
    /\ flux = Num(FallbackFlux) /\ notice = "fallback"
    /\ shielding_material = "Aluminum" /\ daily_dose = Num(35000)

\* a body from which lines 65-68 cannot take a numeric flux: not a list, an
\* empty list, no record with a time_tag, or a last record whose flux is
\* missing or not a number
Unusable(d) ==
    \/ d.kind # "list"
    \/ Len(d.items) = 0
    \/ \A i \in 1..Len(d.items) : ~d.items[i].has_time
    \/ ~(d.items[Len(d.items)].has_flux /\ d.items[Len(d.items)].numeric)

\* C2: for every parsed body that is not a usable list of flux records the
\* run goes on without an exception and the flux used for the dose is 100
\* (not NaN).
C2_MalformedFeedFallsBack ==
    (upstream.how = "json" /\ Unusable(upstream.body)) =>
        /\ exc = "none"
        /\ FluxSelected => flux = Num(FallbackFlux)

\* C3: the flux used by the dose computation is never negative, and neither
\* are base_dose_per_day, daily_dose and total_dose.
C3_FluxClampedNonNegative ==
    /\ FluxSelected => ~FLt(flux, 0)
    /\ DoseComputed =>
          (~FLt(base_dose_per_day, 0) /\ ~FLt(daily_dose, 0) /\ ~FLt(total_dose, 0))

\* C4: for every mission duration and every daily_dose >= 0, total_dose is
\* daily_dose * mission_days and the last element of dose_over_time is
\* total_dose.
C4_TotalIsLastOfSeries ==
    (DoseComputed /\ FGe(daily_dose, 0)) =>
        /\ FEq(total_dose, FMul(daily_dose, mission_days))
        /\ Len(dose_over_time) >= 1
        /\ FEq(dose_over_time[Len(dose_over_time)], total_dose)

C4_Witness ==
    /\ pc = "tab1_map" /\ mission_days = SliderMax
    /\ FGe(daily_dose, 1) /\ Len(dose_over_time) = SliderMax
    /\ dose_over_time[SliderMax] = total_dose

\* C5: for whatever flux the feed or the fallback supplies, dose_over_time
\* has exactly mission_days entries and never decreases.
C5_SeriesMonotone ==
    DoseComputed =>
        /\ Len(dose_over_time) = mission_days
        /\ \A i \in 1..(Len(dose_over_time) - 1) :
              FLe(dose_over_time[i], dose_over_time[i + 1])

\* the bands each chain tests, as lower bounds in thousandths, and the labels
\* it assigns, in order
EffectLower == <<0, 1000, 5000, 15000, 30000>>
EffectLabels == <<"No observable effects.", "Minor biological impact.",
                  "Mild ARS possible.", "Severe ARS symptoms.",
                  "Potentially life-threatening dose.">>
RiskLower == <<0, 1000, 5000>>
RiskLabels == <<"Low", "Moderate", "High">>
\* the band of x: the number of lower bounds that are <= x
BandOf(lower, x) == Cardinality({i \in 1..Len(lower) : lower[i] <= x})

\* C6: both chains are total and unambiguous over [0, infinity): every value
\* gets the label of the one band [lower, next lower) that holds it, a bound
\* belonging to the band above it, and no two bands share a label.
C6_ClassifiersPartition ==
    /\ Cardinality(Range(EffectLabels)) = Len(EffectLower)
    /\ Cardinality(Range(RiskLabels)) = Len(RiskLower)
    /\ probe_effect # "" => probe_effect = EffectLabels[BandOf(EffectLower, probe)]
    /\ probe_risk # "" => probe_risk = RiskLabels[BandOf(RiskLower, probe)]

C6_Witness ==
    /\ probe = 5000
    /\ probe_effect = "Mild ARS possible." /\ probe_risk = "High"

\* the canonical dose bands of the specification, with the labels written
\* as the script writes them (with a full stop)
CanonicalLabel(x) ==
    IF x < 100000 THEN "No observable effects."
    ELSE IF x < 500000 THEN "Minor biological impact."
    ELSE IF x < 1000000 THEN "Possible ARS risk."
    ELSE IF x < 3000000 THEN "Severe ARS symptoms."
    ELSE IF x < 6000000 THEN "Life-threatening."
    ELSE "Fatal in most cases."

C8_SixAdjustedBands ==
    ChartDrawn =>
        /\ FGe(adjusted_dose, 50 * mSv) => effect # EffectOf(Num(30 * mSv))
        /\ \A i \in 1..Len(labels) : labels[i] \in Range(chart_labels)

\* C9: risk is 'Low' iff total_seus < 1, 'Moderate' iff 1 <= total_seus < 5,
\* 'High' iff total_seus >= 5.
C9_SEUBands ==
    SEUClassified =>
        /\ risk = "Low" <=> FLt(total_seus, 1 * Upset)
        /\ risk = "Moderate" <=> (FGe(total_seus, 1 * Upset) /\ FLt(total_seus, 5 * Upset))
        /\ risk = "High" <=> FGe(total_seus, 5 * Upset)

C9_Witness ==
    /\ SEUClassified /\ mission_profile = "Mars Transit" /\ duration = 125
    /\ total_seus = Num(1 * Upset) /\ risk = "Moderate"

\* C10: every entry of shield_factors and of the electronics shielding_factor
\* table is in (0, 1], and exp(-thickness * coefficient) is in (0, 1] for
\* every material and thickness of the comparator, 1 exactly at thickness 0.
C10_AttenuationInUnitInterval ==
    /\ \A m \in DOMAIN shield_factors :
          0 < shield_factors[m] /\ shield_factors[m] <= 100
    /\ \A l \in DOMAIN seu_shielding_factor :
          0 < seu_shielding_factor[l] /\ seu_shielding_factor[l] <= 10
    /\ ShieldConfigured =>
          /\ FGe(shielding_factor, 1) /\ FLt(shielding_factor, ExpScale + 1)
          /\ shielding_factor = Num(ExpScale) <=> thickness = 0

C10_Witness ==
    /\ ShieldConfigured /\ material = "Aluminum" /\ thickness = ThicknessMax
    /\ FGe(shielding_factor, 1) /\ FLt(shielding_factor, ExpScale)

\* C11: daily_dose is flux * 0.00005 * shield_factors[material], total_dose
\* is daily_dose * mission_days and risk_percent is (total_dose / 1000) * 5;
\* 180 days behind Aluminum at flux 100 give 0.0035 mSv/day, 0.63 mSv and
\* 0.00315 percent.  A NaN flux gives NaN throughout.
C11_DoseChain ==
    DoseComputed =>
        /\ flux.nan => (daily_dose.nan /\ total_dose.nan /\ risk_percent.nan)
        /\ ~flux.nan =>
              /\ daily_dose = Num(flux.v * 5 * shield_factors[shielding_material])
              /\ total_dose = Num(daily_dose.v * mission_days)
              /\ risk_percent = Num(total_dose.v * 5)
        /\ (flux = Num(100) /\ shielding_material = "Aluminum" /\ mission_days = 180) =>
              /\ daily_dose = Num(35000)
              /\ total_dose = Num(6300000)
              /\ risk_percent = Num(31500000)

C11_Witness ==
    /\ DoseComputed /\ flux = Num(100) /\ shielding_material = "Aluminum"
    /\ mission_days = 180 /\ total_dose = Num(6300000)
    /\ risk_percent = Num(31500000)

\* the names of tab 2 are bound up to and including the adjusted dose
BioDoseComputed == pc \in {"tab2_effect", "tab2_chart", "tab3_widgets"}

\* C12: adjusted_dose is days * 0.00104 * age_modifier * gender_modifier with
\* age_modifier 1.4 below 10, 1.2 from 10 to 19, 0.9 above 60 and 1.0
\* otherwise (20 and 60 included), gender_modifier 1.1 for Female and 1.0 for
\* Male and for no stated gender; zero days give a raw and an adjusted dose
\* of 0.
C12_AdjustedDose ==
    BioDoseComputed =>
        LET am == CASE age < 10 -> 14
                    [] 10 <= age /\ age <= 19 -> 12
                    [] age > 60 -> 9
                    [] OTHER -> 10
            gm == IF gender = "Female" THEN 11 ELSE 10
        IN  /\ raw_dose = Num(days * 104)
            /\ adjusted_dose = Num(days * 104 * am * gm)
            /\ age \in {20, 60} => adjusted_dose = Num(days * 104 * 10 * gm)
            /\ days = 0 => (raw_dose = Num(0) /\ adjusted_dose = Num(0))

C12_Witness ==
    /\ BioDoseComputed /\ age = 60 /\ gender = "Female" /\ days = 30
    /\ raw_dose = Num(3120) /\ adjusted_dose = Num(343200)

\* C13: no ensemble of a quantity that cannot be negative holds a negative
\* value: every simulated SEU count and every simulated dose is >= 0.
C13_EnsemblesNonNegative ==
    /\ \A i \in DOMAIN simulated_failures : ~FLt(simulated_failures[i], 0)
    /\ \A i \in DOMAIN simulated_doses : ~FLt(simulated_doses[i], 0)

\* radiation_data is bound and upstream is what the ESA request did
RadiationFetched == pc = "tab5_shield"

\* C14: fetch_space_radiation_data raises for no answer of the ESA request;
\* when the request or its parsing fails, or the answer is no object, it
\* returns the mapping iss 0.3, lunar 0.5, mars_transit 1.8, deep_space 2.5;
\* for an object it returns a mapping with the four keys in which a key the
\* answer lacks has its default and a key it holds has the answer's value.
C14_RadiationDataTotal ==
    /\ \A o \in EsaOutcomes :
          fetch_space_radiation_data(o).raised \in {"none", "pending"}
    /\ RadiationFetched =>
          /\ exc = "none"
          /\ DOMAIN radiation_data = {"iss", "lunar", "mars_transit", "deep_space"}
          /\ radiation_data["iss"] = 30
          /\ IF upstream.how = "json" /\ upstream.body.kind = "object"
             THEN /\ radiation_data["lunar"] =
                        IF "lunar_surface" \in upstream.body.keys
                        THEN EsaLive["lunar_surface"] ELSE 50
                  /\ radiation_data["mars_transit"] =
                        IF "mars_transit" \in upstream.body.keys
                        THEN EsaLive["mars_transit"] ELSE 180
                  /\ radiation_data["deep_space"] =
                        IF "galactic" \in upstream.body.keys
                        THEN EsaLive["galactic"] ELSE 250
             ELSE /\ radiation_data["lunar"] = 50
                  /\ radiation_data["mars_transit"] = 180
                  /\ radiation_data["deep_space"] = 250

C14_Witness ==
    /\ RadiationFetched /\ upstream.how = "json"
    /\ upstream.body.keys = {"galactic"}
    /\ radiation_data["deep_space"] = 300 /\ radiation_data["lunar"] = 50

\* C15: no network call waits without bound: a run is never left inside a
\* request that does not answer, and where the proton feed stays silent the
\* fallback flux is used.
C15_NetworkCallsBounded ==
    /\ pc # "blocked"
    /\ (upstream.how = "silent" /\ FluxSelected) => flux = Num(FallbackFlux)

\* C16: the memo never returns an entry older than ttl, keeps no entry for a
\* fetch that failed, and so serves no call from a failed fetch.
C16_MemoExpiresAndForgetsFailures ==
    /\ served.hit => served.age <= ttl
    /\ memo.full => ~FetchFailed
    /\ served.hit => ~FetchFailed

LevelRank(l) == CASE l = "Low" -> 1 [] l = "Moderate" -> 2 [] l = "High" -> 3
                  [] OTHER -> 0
LevelColor(l) == CASE l = "Low" -> "green" [] l = "Moderate" -> "orange"
                   [] l = "High" -> "red" [] OTHER -> "gray"

\* C18: among the plotted stations a higher count never has a lower level
\* (200 is not ranked below 150), and every marker has the colour of its
\* level.
C18_IntensityMonotone ==
    /\ \A i, j \in DOMAIN markers :
          FLe(markers[i].count, markers[j].count) =>
              LevelRank(markers[i].intensity) <= LevelRank(markers[j].intensity)
    /\ \A i \in DOMAIN markers :
          markers[i].color = LevelColor(markers[i].intensity)

\* the records of the '>=10 MeV' channel, in the order of the feed
TenMeV(d) == SelectSeq(d.items, LAMBDA p : p.energy = ">=10 MeV")

\* C19: a live flux is the reading of the most recent record of the feed
\* whose energy is '>=10 MeV'.
C19_LiveFluxIsTenMeV ==
    (FluxSelected /\ notice = "live") =>
        /\ Len(TenMeV(data)) > 0
        /\ flux = to_numeric(TenMeV(data)[Len(TenMeV(data))])

\* C20: no failure to load a tab's external data ends the run: not a failed
\* ISS request (seen before the file is read), not a missing or empty
\* TimeStamp.csv, not a failed space-weather feed.
C20_LoadFailuresContained ==
    /\ (iss \in {"no_position", "bad_body", "raise"} /\ csv = "") => exc = "none"
    /\ csv \in {"empty", "missing"} => exc = "none"
    /\ (proton_notice = "error" \/ xray_notice = "error" \/ kp_notice = "error") =>
          exc = "none"

====
